---- MODULE Spec2Model ----
(***************************************************************************)
(* payment-processor: the client ledger (src/src/clients.rs) and the       *)
(* shared transaction store (src/src/storage.rs).                          *)
(*                                                                         *)
(* Amounts and balances are f32 in the source, and so they are here: NaN,  *)
(* the infinities and the finite values, added, subtracted and compared as *)
(* IEEE 754 binary32 does (FAdd, FSub, FLt).                               *)
(***************************************************************************)
EXTENDS Integers, FiniteSets, Sequences, TLC

\* ------------------------------------------------------------------ f32
\* An f32 of the source (IEEE 754 binary32) is a record: cls "nan"; cls "inf"
\* with its sign; or cls "num", the finite value (-1)^neg * m * 2^e, where m is
\* odd and below 2^24, or m = 0 and e = 0 for the two zeros.  Every f32 has
\* exactly one such record (the payload of a NaN is not modelled: no operation
\* of the program reads it).
Significand == 16777216

NaN == [cls |-> "nan", neg |-> FALSE, m |-> 0, e |-> 0]
Inf == [cls |-> "inf", neg |-> FALSE, m |-> 0, e |-> 0]
Zero == [cls |-> "num", neg |-> FALSE, m |-> 0, e |-> 0]

\* The one element of a set of one element: Only({F(v) : v \in {x}}) is F(x),
\* with x evaluated once however often F reads v.
Only(S) == CHOOSE x \in S : TRUE

Pow2(k) == 2 ^ k

\* The number of bits of the magnitude m, m < 2^30.
BitLen(m) == CHOOSE k \in 0..30 : m < Pow2(k) /\ (k = 0 \/ m >= Pow2(k - 1))

\* The record of (-1)^neg * m * 2^e, m >= 0: m is made odd, what it loses goes
\* to e.
Finite(neg, m, e) ==
    IF m = 0 THEN [cls |-> "num", neg |-> neg, m |-> 0, e |-> 0]
    ELSE LET k == CHOOSE k \in 0..30 : m % Pow2(k) = 0 /\ (m \div Pow2(k)) % 2 = 1
         IN  [cls |-> "num", neg |-> neg, m |-> m \div Pow2(k), e |-> e + k]

\* The f32 of the integer n, for an n that f32 holds exactly.
Num(n) == IF n < 0 THEN Finite(TRUE, 0 - n, 0) ELSE Finite(FALSE, n, 0)

\* -x
Neg(x) == IF x.cls = "nan" THEN x ELSE [x EXCEPT !.neg = ~@]

\* The exponent above the leading bit of a finite x # 0: |x| < 2^Top(x).
Top(x) == x.e + BitLen(x.m)

\* The spacing of the magnitudes of 24 significant bits around m.
Ulp(m) == IF m < Significand THEN 1 ELSE Pow2(BitLen(m) - 24)

\* m in units of u, to nearest, ties to the even multiple.
RoundTo(m, u) ==
    LET q == m \div u
        r == m % u
    IN  IF 2 * r < u THEN q * u
        ELSE IF 2 * r > u THEN (q + 1) * u
        ELSE IF q % 2 = 0 THEN q * u
        ELSE (q + 1) * u

\* m rounded to 24 significant bits, to nearest, ties to the even significand.
RoundMagnitude(m) == Only({RoundTo(m, u) : u \in {Ulp(m)}})

\* The magnitude of the finite x # 0 in units of 2^g, for g at most 27 below
\* the leading bit of x or above it.  Bits of x below 2^g are dropped and
\* remembered in the lowest bit kept (the sticky bit), which is all that rounding
\* to 24 bits, at least two bits higher up, needs to know of them.
Aligned(x, g) ==
    IF x.e >= g THEN x.m * Pow2(x.e - g)
    ELSE IF g - x.e >= 24 THEN 1
    ELSE LET q == x.m \div Pow2(g - x.e)
             r == x.m % Pow2(g - x.e)
         IN  IF r # 0 /\ q % 2 = 0 THEN q + 1 ELSE q

\* A result beyond f32::MAX is an infinity.
Overflowed(x) == IF Top(x) > 128 THEN [Inf EXCEPT !.neg = x.neg] ELSE x

\* The unit 2^g in which a + b is formed: the lowest bit of a or b when both
\* fit above it exactly, and 27 bits below the higher leading bit otherwise.
Unit(a, b) ==
    LET top == IF Top(a) > Top(b) THEN Top(a) ELSE Top(b)
        low == IF a.e < b.e THEN a.e ELSE b.e
    IN  IF low > top - 27 THEN low ELSE top - 27

\* The f32 nearest to s * 2^g.
Rounded(s, g) ==
    IF s = 0 THEN Zero
    ELSE Only({Overflowed(Finite(s < 0, m, g)) :
                   m \in {RoundMagnitude(IF s < 0 THEN 0 - s ELSE s)}})

\* a + b for finite a # 0 and b # 0: the exact sum rounded to nearest.
AddFinite(a, b) ==
    Only({Only({Rounded(s, g) :
                    s \in {(IF a.neg THEN 0 - Aligned(a, g) ELSE Aligned(a, g))
                           + (IF b.neg THEN 0 - Aligned(b, g) ELSE Aligned(b, g))}}) :
              g \in {Unit(a, b)}})

\* a + b for any two f32 values
Sum(a, b) ==
    IF a.cls = "nan" \/ b.cls = "nan" THEN NaN
    ELSE IF a.cls = "inf" THEN (IF b.cls = "inf" /\ b.neg # a.neg THEN NaN ELSE a)
    ELSE IF b.cls = "inf" THEN b
    ELSE IF a.m = 0 /\ b.m = 0 THEN [Zero EXCEPT !.neg = a.neg /\ b.neg]
    ELSE IF a.m = 0 THEN b
    ELSE IF b.m = 0 THEN a
    ELSE AddFinite(a, b)

\* a + b in f32 (the + of +=), of the values of the expressions a and b
FAdd(a, b) == Only({Sum(x, y) : x \in {a}, y \in {b}})

\* a - b in f32 (the - of -=)
FSub(a, b) == FAdd(a, Neg(b))

\* |a| < |b| for finite a # 0 and b # 0
MagLt(a, b) ==
    IF Top(a) # Top(b) THEN Top(a) < Top(b)
    ELSE a.m * Pow2(24 - BitLen(a.m)) < b.m * Pow2(24 - BitLen(b.m))

\* -1, 0 or 1: the sign of a finite or infinite x
Sgn(x) == IF x.cls = "num" /\ x.m = 0 THEN 0 ELSE IF x.neg THEN -1 ELSE 1

\* a < b for any two f32 values: false when either is NaN
Less(a, b) ==
    IF a.cls = "nan" \/ b.cls = "nan" THEN FALSE
    ELSE IF Sgn(a) # Sgn(b) THEN Sgn(a) < Sgn(b)
    ELSE IF Sgn(a) = 0 THEN FALSE
    ELSE IF a.cls = "inf" \/ b.cls = "inf"
         THEN IF Sgn(a) = 1 THEN a.cls # "inf" ELSE b.cls # "inf"
    ELSE IF Sgn(a) = 1 THEN MagLt(a, b)
    ELSE MagLt(b, a)

\* a < b in f32, of the values of the expressions a and b
FLt(a, b) == Only({Less(x, y) : x \in {a}, y \in {b}})

\* a > b, a <= b, a >= b, a == b in f32: false when either is NaN
FGt(a, b) == FLt(b, a)
FEq(a, b) == a.cls # "nan" /\ b.cls # "nan" /\ ~FLt(a, b) /\ ~FLt(b, a)
FLe(a, b) == FLt(a, b) \/ FEq(a, b)
FGe(a, b) == FLe(b, a)

\* ---------------------------------------------------------------- bounds
\* Transaction ids 1..MaxTx.
MaxTx == 2

\* Two clients sharing one store, as in test_hijack_deposit (clients.rs 247-256).
Clients == {1, 2}
TxIds == 1..MaxTx

\* 0.1 as f32 holds it: 13421773 * 2^-27 = 0.100000001490116...
Tenth == Finite(FALSE, 13421773, -27)

\* The amounts of deposits and withdrawals.  Record.amount is an Option<f32>
\* that serde fills from the text of the field and Event::try_from passes on
\* unexamined (events.rs 25, 116-125), so an amount is any f32: here a whole
\* number, a negative decimal fraction, NaN and infinity.
Amounts == {Num(1), Neg(Tenth), NaN, Inf}

\* ------------------------------------------------------------ data types
\* Option<TxState>::None, and the TxState variants (storage.rs 18-25).
None == [kind |-> "None", amount |-> Zero]
Deposit(a) == [kind |-> "Deposit", amount |-> a]
Dispute(a) == [kind |-> "Dispute", amount |-> a]
Withdrawal == [kind |-> "Withdrawal", amount |-> Zero]

TxStates == {Deposit(a) : a \in Amounts} \cup {Dispute(a) : a \in Amounts} \cup {Withdrawal}

\* A key that HashMap<u32, (u16, TxState)> does not hold.
NoEntry == [owner |-> 0, state |-> None]

\* Event (events.rs 31-53) as Client::update reads it: kind(), tx() and the
\* amount carried by Deposit and Withdrawal.  update never reads client_id().
Events ==
    {[kind |-> k, tx |-> t, amount |-> a] :
        k \in {"Deposit", "Withdrawal"}, t \in TxIds, a \in Amounts}
    \cup
    {[kind |-> k, tx |-> t, amount |-> Zero] :
        k \in {"Dispute", "Resolve", "Chargeback"}, t \in TxIds}

\* The events the threads of the parallel specification draw from: those on the
\* transaction ids 1..ConcTx, with the amount 1.0 and, on id 1, NaN.
ConcTx == 1

\* The number of events in the input, where the input is read to its end.
MaxEvents == 3
ConcEvents ==
    {e \in Events : /\ e.tx <= ConcTx
                    /\ (e.amount \in {Num(1), Zero} \/ (e.amount = NaN /\ e.tx = 1))}

NoEvent == [kind |-> "None", tx |-> 0, amount |-> Zero]

\* ------------------------------------------------------- Event::try_from
\* Option<f32> (Record.amount, events.rs 25)
NoAmount == [some |-> FALSE, value |-> Zero]
Some(a) == [some |-> TRUE, value |-> a]

\* Record.type: the five literals that try_from matches (events.rs 116-128) and
\* strings that it does not: other cases, a prefix, the rustdoc's example, "".
RecordTypes ==
    {"deposit", "withdrawal", "dispute", "resolve", "chargeback",
     "Deposit", "DISPUTE", "deposi", "invalid_event", ""}

\* Record (events.rs 8-26)
Records ==
    [type : RecordTypes, client : Clients, tx : TxIds,
     amount : {NoAmount} \cup {Some(a) : a \in Amounts}]

NoRecord == [type |-> "", client |-> 0, tx |-> 0, amount |-> NoAmount]

\* The Event that try_from builds (events.rs 112-131): kind is the EventType
\* variant, amount the f32 that Deposit and Withdrawal carry.
EventOf(r, k, amt) == [client |-> r.client, tx |-> r.tx, kind |-> k, amount |-> amt]

ParsedOk(ev) == [res |-> "ok", event |-> ev]
ParsedErr(msg) == [res |-> msg, event |-> EventOf(NoRecord, "None", NoAmount)]
NotParsed == [res |-> "none", event |-> EventOf(NoRecord, "None", NoAmount)]

\* Mutant of TryFrom: the amount of the record is kept for every type.
TryFromKeepsAmount(r) ==
    CASE r.type = "deposit" ->
             IF r.amount.some THEN ParsedOk(EventOf(r, "Deposit", r.amount))
             ELSE ParsedErr("deposit requires an amount")
      [] r.type = "withdrawal" ->
             IF r.amount.some THEN ParsedOk(EventOf(r, "Withdrawal", r.amount))
             ELSE ParsedErr("withdrawal requires an  amount")
      [] r.type = "dispute" -> ParsedOk(EventOf(r, "Dispute", r.amount))
      [] r.type = "resolve" -> ParsedOk(EventOf(r, "Resolve", r.amount))
      [] r.type = "chargeback" -> ParsedOk(EventOf(r, "Chargeback", r.amount))
      [] OTHER -> ParsedErr("invalid transaction type")

\* impl TryFrom<Record> for Event (events.rs 111-132)
TryFrom(r) ==
    CASE r.type = "deposit" ->
             IF r.amount.some THEN ParsedOk(EventOf(r, "Deposit", r.amount))
             ELSE ParsedErr("deposit requires an amount")
      [] r.type = "withdrawal" ->
             IF r.amount.some THEN ParsedOk(EventOf(r, "Withdrawal", r.amount))
             ELSE ParsedErr("withdrawal requires an  amount")
      [] r.type = "dispute" -> ParsedOk(EventOf(r, "Dispute", NoAmount))
      [] r.type = "resolve" -> ParsedOk(EventOf(r, "Resolve", NoAmount))
      [] r.type = "chargeback" -> ParsedOk(EventOf(r, "Chargeback", NoAmount))
      [] OTHER -> ParsedErr("invalid transaction type")

VARIABLES
    available,  \* Client.available, per client
    total,      \* Client.total, per client
    locked,     \* Client.locked, per client
    store,      \* MemoryStore.transactions: tx id -> (owner, TxState)
    last,       \* parallel updates: the client whose update returned last, and its result
    pc,         \* per client: where its thread stands inside update
    cur,        \* per client: the event of the update in progress
    fetched,    \* per client: what store.get returned to the update in progress
    mutex,      \* the client whose thread holds the Mutex of the store, or 0
    claimed,    \* history: per tx id, the clients whose deposit or withdrawal creating it returned Ok
    creator,    \* history: per tx id, the client of the first upsert on it, or 0
    written,    \* history: per tx id, the state of the last upsert that returned Ok
    scenario,   \* history: how many events of Scenario make up the whole run so far, or -1
    record,     \* the Record handed to Event::try_from
    parsed,     \* what Event::try_from returned for it
    left,       \* how many events of the input are yet to be handed to a client
    deposited,  \* history: per client, the sum of the amounts of its deposits that returned Ok
    withdrawn,  \* history: per client, the sum of the amounts of its withdrawals that returned Ok
    created,    \* per client: how many times the driver called Client::new for it
    validated,  \* history: the client ids of the events Event::try_from accepted
    succeeded   \* history: the clients with an update that returned Ok

clientVars == <<available, total, locked>>
threadVars == <<pc, cur, fetched, mutex, claimed>>
storeCallVars == <<creator, written>>
inputVars == <<scenario, record, parsed>>
sumVars == <<deposited, withdrawn>>
driverVars == <<created, validated, succeeded>>
historyVars == <<left, sumVars, driverVars>>
vars == <<available, total, locked, store, last, pc, cur, fetched, mutex, claimed,
          creator, written, scenario, record, parsed, left, deposited, withdrawn,
          created, validated, succeeded>>

\* ------------------------------------------------------------- the store
\* Mutant of Get: the owner is not compared.
GetAnyOwner(st, client_id, tx_id) ==
    IF st[tx_id] = NoEntry THEN None ELSE st[tx_id].state

\* TxStore::get (storage.rs 57-65)
Get(st, client_id, tx_id) ==
    IF st[tx_id] = NoEntry THEN None
    ELSE IF st[tx_id].owner # client_id THEN None
    ELSE st[tx_id].state

\* Mutant of Upsert: the owner is not compared, the entry is overwritten.
UpsertAnyOwner(st, client_id, tx_id, tx) ==
    [res |-> "ok",
     store |-> [st EXCEPT ![tx_id] = [owner |-> client_id, state |-> tx]]]

\* Mutant of Upsert: another client's upsert is dropped without an error.
UpsertSilent(st, client_id, tx_id, tx) ==
    IF st[tx_id] # NoEntry /\ st[tx_id].owner # client_id
    THEN [res |-> "ok", store |-> st]
    ELSE [res |-> "ok",
          store |-> [st EXCEPT ![tx_id] = [owner |-> client_id, state |-> tx]]]

\* TxStore::upsert (storage.rs 67-83): the error, if any, and the map afterwards
Upsert(st, client_id, tx_id, tx) ==
    IF st[tx_id] # NoEntry /\ st[tx_id].owner # client_id
    THEN [res |-> "transaction exists for different client", store |-> st]
    ELSE [res |-> "ok",
          store |-> [st EXCEPT ![tx_id] = [owner |-> client_id, state |-> tx]]]

\* Client::held (clients.rs 63-65)
held(c) == FSub(total[c], available[c])

\* --------------------------------------------------------- Client::update
\* An update that returns Err(msg): bail!/? return before any field is assigned.
Fail(c, msg) ==
    [res |-> msg, available |-> available[c], total |-> total[c],
     locked |-> locked[c], store |-> store]

\* Mutant of PreGet: the frozen check is missing.
PreGetNoFrozenCheck(c, e) ==
    IF e.kind = "Withdrawal" /\ FLt(available[c], e.amount)
    THEN "insufficient funds for withdrawal"
    ELSE "ok"

\* Mutant of PreGet: a withdrawal is checked against total, not available.
PreGetAgainstTotal(c, e) ==
    IF locked[c] THEN "account is frozen"
    ELSE IF e.kind = "Withdrawal" /\ FLt(total[c], e.amount)
         THEN "insufficient funds for withdrawal"
    ELSE "ok"

\* The guards update evaluates before it first reads the store:
\* the frozen check (clients.rs 111-113) and the funds check of a
\* withdrawal (clients.rs 127-129).
PreGet(c, e) ==
    IF locked[c] THEN "account is frozen"
    ELSE IF e.kind = "Withdrawal" /\ FLt(available[c], e.amount)
         THEN "insufficient funds for withdrawal"
    ELSE "ok"

\* What update decides from the Option<TxState> that store.get returned: an
\* error, or the TxState it goes on to upsert (write = None: it upserts nothing).
Bail(msg) == [res |-> msg, write |-> None]
Go(tx) == [res |-> "ok", write |-> tx]

\* Mutant of GetDeposit: the duplicate check is missing.
GetDepositNoDuplicateCheck(c, e, got) == Go(Deposit(e.amount))

\* EventType::Deposit (clients.rs 116-122)
GetDeposit(c, e, got) ==
    IF got # None THEN Bail("cannot overwrite existing transaction")
    ELSE Go(Deposit(e.amount))

\* Mutant of GetWithdrawal: the duplicate check is missing.
GetWithdrawalNoDuplicateCheck(c, e, got) == Go(Withdrawal)

\* EventType::Withdrawal, after the funds check (clients.rs 131-136)
GetWithdrawal(c, e, got) ==
    IF got # None THEN Bail("cannot overwrite existing transaction")
    ELSE Go(Withdrawal)

\* Mutant of GetDispute: every undisputed transaction can be disputed, a
\* withdrawal as well.
GetDisputeAnyState(c, e, got) ==
    IF got = None THEN Bail("transaction does not exist")
    ELSE IF got.kind = "Dispute" THEN Bail("transaction already disputed")
    ELSE IF FGt(got.amount, available[c])
         THEN Bail("not enough funds to dispute transaction")
    ELSE Go(Dispute(got.amount))

\* EventType::Dispute (clients.rs 140-157)
GetDispute(c, e, got) ==
    IF got = None THEN Bail("transaction does not exist")
    ELSE IF got.kind = "Deposit"
         THEN IF FGt(got.amount, available[c])
              THEN Bail("not enough funds to dispute transaction")
              ELSE Go(Dispute(got.amount))
    ELSE IF got.kind = "Dispute" THEN Bail("transaction already disputed")
    ELSE Bail("cannot dispute a withdrawal")

\* EventType::Resolve (clients.rs 159-173)
GetResolve(c, e, got) ==
    IF got = None THEN Bail("transaction does not exist")
    ELSE IF got.kind = "Dispute" THEN Go(Deposit(got.amount))
    ELSE Bail("transaction is not disputed")

\* EventType::Chargeback (clients.rs 175-188)
GetChargeback(c, e, got) ==
    IF got = None THEN Bail("transaction does not exist")
    ELSE IF got.kind = "Dispute" THEN Go(None)
    ELSE Bail("transaction is not disputed")

\* match event.kind() (clients.rs 115)
AfterGet(c, e, got) ==
    CASE e.kind = "Deposit" -> GetDeposit(c, e, got)
      [] e.kind = "Withdrawal" -> GetWithdrawal(c, e, got)
      [] e.kind = "Dispute" -> GetDispute(c, e, got)
      [] e.kind = "Resolve" -> GetResolve(c, e, got)
      [] e.kind = "Chargeback" -> GetChargeback(c, e, got)

\* The field assignments of a successful update, with st the store it leaves.
Ok(av, tot, lk, st) ==
    [res |-> "ok", available |-> av, total |-> tot, locked |-> lk, store |-> st]

\* clients.rs 123-124
AppliedDeposit(c, e, got, st) ==
    Ok(FAdd(available[c], e.amount), FAdd(total[c], e.amount), locked[c], st)

\* Mutant of AppliedWithdrawal: total is not decreased.
AppliedWithdrawalAvailableOnly(c, e, got, st) ==
    Ok(FSub(available[c], e.amount), total[c], locked[c], st)

\* clients.rs 137-138
AppliedWithdrawal(c, e, got, st) ==
    Ok(FSub(available[c], e.amount), FSub(total[c], e.amount), locked[c], st)

\* Mutant of AppliedDispute: the amount is taken from total as well.
AppliedDisputeAlsoTotal(c, e, got, st) ==
    Ok(FSub(available[c], got.amount), FSub(total[c], got.amount), locked[c], st)

\* clients.rs 153
AppliedDispute(c, e, got, st) ==
    Ok(FSub(available[c], got.amount), total[c], locked[c], st)

\* clients.rs 168
AppliedResolve(c, e, got, st) ==
    Ok(FAdd(available[c], got.amount), total[c], locked[c], st)

\* Mutant of AppliedChargeback: the amount is taken from available as well.
AppliedChargebackFromAvailable(c, e, got, st) ==
    Ok(FSub(available[c], got.amount), FSub(total[c], got.amount), TRUE, st)

\* clients.rs 182-183
AppliedChargeback(c, e, got, st) ==
    Ok(available[c], FSub(total[c], got.amount), TRUE, st)

Applied(c, e, got, st) ==
    CASE e.kind = "Deposit" -> AppliedDeposit(c, e, got, st)
      [] e.kind = "Withdrawal" -> AppliedWithdrawal(c, e, got, st)
      [] e.kind = "Dispute" -> AppliedDispute(c, e, got, st)
      [] e.kind = "Resolve" -> AppliedResolve(c, e, got, st)
      [] e.kind = "Chargeback" -> AppliedChargeback(c, e, got, st)

\* Mutant of AfterUpsert: the balances are assigned before upsert's result is
\* looked at, so an Err leaves them changed.
AfterUpsertBalancesFirst(c, e, got, up) ==
    [Applied(c, e, got, up.store) EXCEPT !.res = up.res]

\* The `?` on store.upsert (clients.rs 121-122, 135-136, 151-152, 166-167):
\* an Err returns at once, before the balance assignments that follow it.
AfterUpsert(c, e, got, up) ==
    IF up.res # "ok" THEN Fail(c, up.res)
    ELSE Applied(c, e, got, up.store)

\* Client::update (clients.rs 110-193) run from start to return.
Update(c, e) ==
    LET pre == PreGet(c, e) IN
    IF pre # "ok" THEN Fail(c, pre)
    ELSE LET got == Get(store, c, e.tx)
             dec == AfterGet(c, e, got)
         IN  IF dec.res # "ok" THEN Fail(c, dec.res)
             ELSE IF dec.write = None THEN Applied(c, e, got, store)
             ELSE AfterUpsert(c, e, got, Upsert(store, c, e.tx, dec.write))

\* Client::update (clients.rs 110-193) of a client whose self.store holds the
\* map st: the same statements as Update, with get and upsert called on st.
UpdateIn(st, c, e) ==
    LET pre == PreGet(c, e) IN
    IF pre # "ok" THEN [Fail(c, pre) EXCEPT !.store = st]
    ELSE LET got == Get(st, c, e.tx)
             dec == AfterGet(c, e, got)
         IN  IF dec.res # "ok" THEN [Fail(c, dec.res) EXCEPT !.store = st]
             ELSE IF dec.write = None THEN Applied(c, e, got, st)
             ELSE LET up == Upsert(st, c, e.tx, dec.write)
                  IN  [AfterUpsert(c, e, got, up) EXCEPT !.store = up.store]

NoCall == [client |-> 0, res |-> "none"]

Returned(c, res) == [client |-> c, res |-> res]

\* Client::new (clients.rs 44-50) for every client, over one MemoryStore::new
\* (storage.rs 49-53).
Init ==
    /\ available = [c \in Clients |-> Zero]
    /\ total = [c \in Clients |-> Zero]
    /\ locked = [c \in Clients |-> FALSE]
    /\ store = [t \in TxIds |-> NoEntry]
    /\ last = NoCall
    /\ pc = [c \in Clients |-> "idle"]
    /\ cur = [c \in Clients |-> NoEvent]
    /\ fetched = [c \in Clients |-> None]
    /\ mutex = 0
    /\ claimed = [t \in TxIds |-> {}]
    /\ creator = [t \in TxIds |-> 0]
    /\ written = [t \in TxIds |-> None]
    /\ scenario = 0
    /\ record = NoRecord
    /\ parsed = NotParsed
    /\ left = MaxEvents
    /\ deposited = [c \in Clients |-> 0]
    /\ withdrawn = [c \in Clients |-> 0]
    /\ created = [c \in Clients |-> 0]
    /\ validated = {}
    /\ succeeded = {}

\* One call client.update(&event), events of all clients applied one at a time
\* as the driver does (main.rs 59-67).
\* What client c's call update(&e) returns (res), and the clients and the store
\* after it: update assigns the fields of self alone (&mut self) and writes the
\* store through upsert.
After(c, e) ==
    Only({[res |-> r.res,
           available |-> [available EXCEPT ![c] = r.available],
           total |-> [total EXCEPT ![c] = r.total],
           locked |-> [locked EXCEPT ![c] = r.locked],
           store |-> r.store] : r \in {Update(c, e)}})

ClientUpdate(c, e) ==
    \E n \in {After(c, e)} :
    /\ available' = n.available
    /\ total' = n.total
    /\ locked' = n.locked
    /\ store' = n.store
    /\ UNCHANGED <<last, threadVars, storeCallVars, inputVars, historyVars>>

Next == \E c \in Clients, e \in Events : ClientUpdate(c, e)

Spec == Init /\ [][Next]_vars

\* ------------------------------------------- the amounts of the unit tests
\* The amounts 5.0 and 6.0 and the event sequence of test_dispute_frozen
\* (clients.rs 406-410): deposit tx 1, deposit tx 2, dispute tx 1, chargeback tx 1
\* on a new client.
ScenarioAmounts == {Num(5), Num(6)}

ScenarioEvents ==
    {[kind |-> k, tx |-> t, amount |-> a] :
        k \in {"Deposit", "Withdrawal"}, t \in TxIds, a \in ScenarioAmounts}
    \cup
    {[kind |-> k, tx |-> t, amount |-> Zero] :
        k \in {"Dispute", "Resolve", "Chargeback"}, t \in TxIds}

ScenarioClient == 1

Scenario ==
    << [kind |-> "Deposit", tx |-> 1, amount |-> Num(5)],
       [kind |-> "Deposit", tx |-> 2, amount |-> Num(6)],
       [kind |-> "Dispute", tx |-> 1, amount |-> Zero],
       [kind |-> "Chargeback", tx |-> 1, amount |-> Zero] >>

\* One call client.update(&event) with the amounts of the tests; scenario counts
\* the events of Scenario as long as the run consists of exactly those.
ScenarioUpdate(c, e) ==
    \E n \in {After(c, e)} :
    /\ available' = n.available
    /\ total' = n.total
    /\ locked' = n.locked
    /\ store' = n.store
    /\ scenario' = IF /\ scenario >= 0
                      /\ scenario < Len(Scenario)
                      /\ c = ScenarioClient
                      /\ e = Scenario[scenario + 1]
                   THEN scenario + 1
                   ELSE -1
    /\ UNCHANGED <<last, threadVars, storeCallVars, record, parsed, historyVars>>

ScenarioNext == \E c \in Clients, e \in ScenarioEvents : ScenarioUpdate(c, e)

SpecScenario == Init /\ [][ScenarioNext]_vars

\* ----------------------------------------------------- records validated
\* Event::try_from(record) for every Record of the bounded universe.
InitEvents ==
    /\ available = [c \in Clients |-> Zero]
    /\ total = [c \in Clients |-> Zero]
    /\ locked = [c \in Clients |-> FALSE]
    /\ store = [t \in TxIds |-> NoEntry]
    /\ last = NoCall
    /\ pc = [c \in Clients |-> "idle"]
    /\ cur = [c \in Clients |-> NoEvent]
    /\ fetched = [c \in Clients |-> None]
    /\ mutex = 0
    /\ claimed = [t \in TxIds |-> {}]
    /\ creator = [t \in TxIds |-> 0]
    /\ written = [t \in TxIds |-> None]
    /\ scenario = 0
    /\ record \in Records
    /\ parsed = NotParsed
    /\ left = MaxEvents
    /\ deposited = [c \in Clients |-> 0]
    /\ withdrawn = [c \in Clients |-> 0]
    /\ created = [c \in Clients |-> 0]
    /\ validated = {}
    /\ succeeded = {}

Validate ==
    /\ parsed = NotParsed
    /\ parsed' = TryFrom(record)
    /\ UNCHANGED <<clientVars, store, last, threadVars, storeCallVars, scenario, record,
                   historyVars>>

EventsNext == Validate

SpecEvents == InitEvents /\ [][EventsNext]_vars

\* ------------------------------------------------- the store called directly
\* store.get(client_id, tx_id) on the shared MemoryStore (storage.rs 57-65): it
\* reads the map under the lock, returns Get(store, c, t) and assigns nothing.
StoreGet(c, t) ==
    /\ Get(store, c, t) \in TxStates \cup {None}
    /\ UNCHANGED vars

\* store.upsert(client_id, tx_id, tx) on the shared MemoryStore (storage.rs
\* 67-83); it returns Upsert(store, c, t, tx).res.
StoreUpsert(c, t, tx) ==
    LET r == Upsert(store, c, t, tx) IN
    /\ store' = r.store
    /\ creator' = IF creator[t] = 0 THEN [creator EXCEPT ![t] = c] ELSE creator
    /\ written' = IF r.res = "ok" THEN [written EXCEPT ![t] = tx] ELSE written
    /\ UNCHANGED <<clientVars, last, threadVars, inputVars, historyVars>>

StoreNext ==
    \/ \E c \in Clients, t \in TxIds : StoreGet(c, t)
    \/ \E c \in Clients, t \in TxIds, tx \in TxStates : StoreUpsert(c, t, tx)

SpecStore == Init /\ [][StoreNext]_vars

\* ------------------------------------- updates of different clients in parallel
\* Each client is one thread calling update on its own Client (&mut self); the
\* threads share the Arc<Mutex<MemoryStore>>.  get and upsert each lock the
\* mutex on entry and release it on return (storage.rs 58, 68); what update
\* does between and after the two calls it does holding no lock.  pc[c] is
\*   "idle"      outside update
\*   "get"       at store.get, waiting for the mutex
\*   "inGet"     inside get, holding the mutex
\*   "gotten"    get has returned
\*   "upsert"    at store.upsert, waiting for the mutex
\*   "inUpsert"  inside upsert, holding the mutex
\*   "upserted"  upsert has returned Ok(())
\*   "refused"   upsert has returned Err

Finish(c, r) ==
    /\ available' = [available EXCEPT ![c] = r.available]
    /\ total' = [total EXCEPT ![c] = r.total]
    /\ locked' = [locked EXCEPT ![c] = r.locked]
    /\ last' = Returned(c, r.res)
    /\ pc' = [pc EXCEPT ![c] = "idle"]
    /\ cur' = [cur EXCEPT ![c] = NoEvent]
    /\ fetched' = [fetched EXCEPT ![c] = None]

\* update is entered and runs up to its first store.get (clients.rs 110-117,
\* 126-131, 140-143, 159-162, 175-178).
BeginUpdate(c, e) ==
    /\ pc[c] = "idle"
    /\ LET pre == PreGet(c, e) IN
       IF pre # "ok"
       THEN /\ last' = Returned(c, pre)
            /\ UNCHANGED <<clientVars, store, threadVars>>
       ELSE /\ pc' = [pc EXCEPT ![c] = "get"]
            /\ cur' = [cur EXCEPT ![c] = e]
            /\ UNCHANGED <<clientVars, store, last, fetched, mutex, claimed>>
    /\ UNCHANGED <<storeCallVars, inputVars, sumVars, driverVars>>

\* A thread that starts updates for as long as it runs.
Begin(c, e) ==
    /\ BeginUpdate(c, e)
    /\ UNCHANGED left

\* self.lock() in get (storage.rs 58)
LockForGet(c) ==
    /\ pc[c] = "get"
    /\ mutex = 0
    /\ mutex' = c
    /\ pc' = [pc EXCEPT ![c] = "inGet"]
    /\ UNCHANGED <<clientVars, store, last, cur, fetched, claimed, storeCallVars,
                   inputVars, historyVars>>

\* Mutant of GetStep: the guard taken in get is not dropped when get returns.
GetStepKeepsGuard(c) ==
    /\ pc[c] = "inGet"
    /\ pc' = [pc EXCEPT ![c] = "gotten"]
    /\ fetched' = [fetched EXCEPT ![c] = Get(store, c, cur[c].tx)]
    /\ UNCHANGED <<clientVars, store, last, cur, mutex, claimed, storeCallVars,
                   inputVars, historyVars>>

\* get reads the map and returns its answer, dropping the guard
\* (storage.rs 58-64).
GetStep(c) ==
    /\ pc[c] = "inGet"
    /\ mutex' = 0
    /\ pc' = [pc EXCEPT ![c] = "gotten"]
    /\ fetched' = [fetched EXCEPT ![c] = Get(store, c, cur[c].tx)]
    /\ UNCHANGED <<clientVars, store, last, cur, claimed, storeCallVars,
                   inputVars, historyVars>>

\* update goes on from the answer of get, holding no lock: it returns an error
\* (clients.rs 118, 132, 144, 148, 155-156, 163, 171, 179, 186), or, for a
\* chargeback, assigns total and locked and returns Ok (clients.rs 182-183,
\* 192), or comes to its store.upsert (clients.rs 121, 135, 151, 166).
GetReturned(c) ==
    /\ pc[c] = "gotten"
    /\ LET dec == AfterGet(c, cur[c], fetched[c])
       IN  IF dec.res # "ok"
           THEN Finish(c, Fail(c, dec.res))
           ELSE IF dec.write = None
           THEN \E r \in {Applied(c, cur[c], fetched[c], store)} : Finish(c, r)
           ELSE /\ pc' = [pc EXCEPT ![c] = "upsert"]
                /\ UNCHANGED <<clientVars, last, cur, fetched>>
    /\ UNCHANGED <<store, mutex, claimed, storeCallVars, inputVars, historyVars>>

\* self.lock() in upsert (storage.rs 68)
LockForUpsert(c) ==
    /\ pc[c] = "upsert"
    /\ mutex = 0
    /\ mutex' = c
    /\ pc' = [pc EXCEPT ![c] = "inUpsert"]
    /\ UNCHANGED <<clientVars, store, last, cur, fetched, claimed, storeCallVars,
                   inputVars, historyVars>>

\* Mutant of UpsertStep: upsert trusts the earlier get and inserts without
\* comparing the owner (check and write are not one atomic step).
UpsertStepTrustsGet(c) ==
    /\ pc[c] = "inUpsert"
    /\ mutex' = 0
    /\ \E up \in {UpsertAnyOwner(store, c, cur[c].tx,
                                 AfterGet(c, cur[c], fetched[c]).write)} :
           /\ store' = up.store
           /\ pc' = [pc EXCEPT ![c] = IF up.res = "ok" THEN "upserted" ELSE "refused"]
    /\ UNCHANGED <<clientVars, last, cur, fetched, claimed, storeCallVars,
                   inputVars, historyVars>>

\* upsert checks the owner, writes and returns Ok, or returns Err, dropping the
\* guard (storage.rs 68-83).
UpsertStep(c) ==
    /\ pc[c] = "inUpsert"
    /\ mutex' = 0
    /\ \E up \in {Upsert(store, c, cur[c].tx,
                         AfterGet(c, cur[c], fetched[c]).write)} :
           /\ store' = up.store
           /\ pc' = [pc EXCEPT ![c] = IF up.res = "ok" THEN "upserted" ELSE "refused"]
    /\ UNCHANGED <<clientVars, last, cur, fetched, claimed, storeCallVars,
                   inputVars, historyVars>>

\* What upsert returned to the update of c that stands behind its store.upsert.
UpsertResult(c) ==
    [res |-> IF pc[c] = "upserted" THEN "ok"
             ELSE "transaction exists for different client",
     store |-> store]

\* update goes on from the result of upsert, holding no lock: the `?` returns
\* the Err, or the balances are assigned and update returns Ok
\* (clients.rs 121-124, 135-138, 151-153, 166-168, 192).
UpsertReturned(c) ==
    /\ pc[c] \in {"upserted", "refused"}
    /\ \E r \in {AfterUpsert(c, cur[c], fetched[c], UpsertResult(c))} :
           /\ Finish(c, r)
           /\ claimed' = IF r.res = "ok" /\ cur[c].kind \in {"Deposit", "Withdrawal"}
                         THEN [claimed EXCEPT ![cur[c].tx] = @ \cup {c}]
                         ELSE claimed
    /\ UNCHANGED <<store, mutex, storeCallVars, inputVars, historyVars>>

ConcNext ==
    \/ \E c \in Clients, e \in ConcEvents : Begin(c, e)
    \/ \E c \in Clients : LockForGet(c)
    \/ \E c \in Clients : GetStep(c)
    \/ \E c \in Clients : GetReturned(c)
    \/ \E c \in Clients : LockForUpsert(c)
    \/ \E c \in Clients : UpsertStep(c)
    \/ \E c \in Clients : UpsertReturned(c)

SpecConc == Init /\ [][ConcNext]_vars

\* --------------------------------- threads that read their input to its end
\* The input holds MaxEvents events; each goes to the thread of its client,
\* which calls update for it when its last call has returned.
BeginNext(c, e) ==
    /\ left > 0
    /\ BeginUpdate(c, e)
    /\ left' = left - 1

\* The steps of client c's thread inside update.
ThreadStep(c) ==
    \/ LockForGet(c)
    \/ GetStep(c)
    \/ GetReturned(c)
    \/ LockForUpsert(c)
    \/ UpsertStep(c)
    \/ UpsertReturned(c)

FairNext ==
    \/ \E c \in Clients, e \in ConcEvents : BeginNext(c, e)
    \/ \E c \in Clients : LockForGet(c)
    \/ \E c \in Clients : GetStep(c)
    \/ \E c \in Clients : GetReturned(c)
    \/ \E c \in Clients : LockForUpsert(c)
    \/ \E c \in Clients : UpsertStep(c)
    \/ \E c \in Clients : UpsertReturned(c)

\* A thread that can take the free mutex takes it (weak fairness of lock
\* acquisition), and a running thread keeps running: to the return of the get
\* or upsert it is in, and from there to the next store call or to the return
\* of update.  Of the steps of one thread only the one at its pc can be
\* enabled, and only that thread moves its pc, so this is weak fairness of each
\* of the thread's steps.
Fairness == \A c \in Clients : WF_vars(ThreadStep(c))

SpecConcFair == Init /\ [][FairNext]_vars /\ Fairness

\* ------------------------------------------- amounts beyond f32's integers
\* Non-negative amounts only, among them one at which f32 values are 4 apart,
\* so that adding or subtracting 1 is rounded away.
LargeAmount == Num(2 * Significand)
LedgerAmounts == {Zero, Num(1), LargeAmount}

LedgerTxIds == 1 .. (MaxTx + 1)

LedgerEvents ==
    {[kind |-> k, tx |-> t, amount |-> a] :
        k \in {"Deposit", "Withdrawal"}, t \in LedgerTxIds, a \in LedgerAmounts}
    \cup
    {[kind |-> k, tx |-> t, amount |-> Zero] :
        k \in {"Dispute", "Resolve", "Chargeback"}, t \in LedgerTxIds}

InitLedger ==
    /\ available = [c \in Clients |-> Zero]
    /\ total = [c \in Clients |-> Zero]
    /\ locked = [c \in Clients |-> FALSE]
    /\ store = [t \in LedgerTxIds |-> NoEntry]
    /\ last = NoCall
    /\ pc = [c \in Clients |-> "idle"]
    /\ cur = [c \in Clients |-> NoEvent]
    /\ fetched = [c \in Clients |-> None]
    /\ mutex = 0
    /\ claimed = [t \in TxIds |-> {}]
    /\ creator = [t \in TxIds |-> 0]
    /\ written = [t \in TxIds |-> None]
    /\ scenario = 0
    /\ record = NoRecord
    /\ parsed = NotParsed
    /\ left = MaxEvents
    /\ deposited = [c \in Clients |-> 0]
    /\ withdrawn = [c \in Clients |-> 0]
    /\ created = [c \in Clients |-> 0]
    /\ validated = {}
    /\ succeeded = {}

\* The integer that the f32 x is, for an x that is one.
IntOf(x) == (IF x.neg THEN -1 ELSE 1) * x.m * Pow2(x.e)

\* One call client.update(&event); deposited and withdrawn add up, exactly, the
\* amounts of the deposits and withdrawals that returned Ok.
LedgerUpdate(c, e) ==
    \E n \in {After(c, e)} :
    /\ available' = n.available
    /\ total' = n.total
    /\ locked' = n.locked
    /\ store' = n.store
    /\ deposited' = IF n.res = "ok" /\ e.kind = "Deposit"
                    THEN [deposited EXCEPT ![c] = @ + IntOf(e.amount)]
                    ELSE deposited
    /\ withdrawn' = IF n.res = "ok" /\ e.kind = "Withdrawal"
                    THEN [withdrawn EXCEPT ![c] = @ + IntOf(e.amount)]
                    ELSE withdrawn
    /\ UNCHANGED <<last, threadVars, storeCallVars, inputVars, left, driverVars>>

LedgerNext == \E c \in Clients, e \in LedgerEvents : LedgerUpdate(c, e)

SpecLedger == InitLedger /\ [][LedgerNext]_vars

\* --------------------------------------------------------------- the driver
\* The Result<Record, csv::Error> that the reader hands to handle_entry
\* (main.rs 28-31, 59): a Record, or the error of a row that is not one.
\* The records of the driver's input: of any type, with or without an amount for
\* a deposit or a withdrawal (a number or NaN), without one for the other types.
CsvError == [ok |-> FALSE, record |-> NoRecord]
DriverRecords ==
    {r \in Records :
        r.amount.some => (/\ r.amount.value \in {Num(1), NaN}
                          /\ r.type \in {"deposit", "withdrawal"})}
Entries == {[ok |-> TRUE, record |-> r] : r \in DriverRecords} \cup {CsvError}

\* The event as Client::update reads it: the amount is the f32 of a Deposit or
\* a Withdrawal, the other kinds carry none.
UpdateEvent(ev) ==
    [kind |-> ev.kind, tx |-> ev.tx,
     amount |-> IF ev.amount.some THEN ev.amount.value ELSE Zero]

\* handle_entry returned early with an error: nothing was assigned.
Dropped(msg) ==
    [res |-> msg, available |-> available, total |-> total, locked |-> locked,
     store |-> store, created |-> created, validated |-> validated,
     succeeded |-> succeeded]

\* Mutant of HandleEntry: the client entry is looked up, and inserted, under the
\* client id of the record before the record is validated.
HandleEntryInsertsFirst(entry) ==
    IF ~entry.ok THEN Dropped("csv error")
    ELSE LET p == TryFrom(entry.record)
             c == entry.record.client
             made == IF created[c] = 0 THEN [created EXCEPT ![c] = @ + 1] ELSE created
         IN  IF p.res # "ok"
             THEN [Dropped(p.res) EXCEPT !.created = made]
             ELSE Only({[res |-> n.res,
                         available |-> n.available,
                         total |-> n.total,
                         locked |-> n.locked,
                         store |-> n.store,
                         created |-> made,
                         validated |-> validated \cup {c},
                         succeeded |-> IF n.res = "ok" THEN succeeded \cup {c}
                                       ELSE succeeded] :
                            n \in {After(c, UpdateEvent(p.event))}})

\* handle_entry (main.rs 28-41): entry?, Event::try_from(record)?, then the
\* client of the event is taken from clients_state, Client::new being called
\* when the map has no entry for the id (or_insert_with), and the event is
\* applied to it.  A client that was never created has the fields of
\* Client::new.
HandleEntry(entry) ==
    IF ~entry.ok THEN Dropped("csv error")
    ELSE LET p == TryFrom(entry.record) IN
         IF p.res # "ok" THEN Dropped(p.res)
         ELSE Only({[res |-> n.res,
                     available |-> n.available,
                     total |-> n.total,
                     locked |-> n.locked,
                     store |-> n.store,
                     created |-> IF created[c] = 0
                                 THEN [created EXCEPT ![c] = @ + 1]
                                 ELSE created,
                     validated |-> validated \cup {c},
                     succeeded |-> IF n.res = "ok" THEN succeeded \cup {c}
                                   ELSE succeeded] :
                        c \in {p.event.client},
                        n \in {After(p.event.client, UpdateEvent(p.event))}})

\* One iteration of the loop of main (main.rs 59-67): the error, if any, is
\* logged and the loop goes on.
DriverStep(entry) ==
    \E n \in {HandleEntry(entry)} :
    /\ available' = n.available
    /\ total' = n.total
    /\ locked' = n.locked
    /\ store' = n.store
    /\ created' = n.created
    /\ validated' = n.validated
    /\ succeeded' = n.succeeded
    /\ UNCHANGED <<last, threadVars, storeCallVars, inputVars, left, sumVars>>

DriverNext == \E entry \in Entries : DriverStep(entry)

SpecDriver == Init /\ [][DriverNext]_vars

\* ===================================================================== claims
Balances == <<available, total, locked>>

\* C1: for every client, held = total - available is >= 0 in every reachable
\* state, whatever the sign of the amounts of the events applied.
C1_HeldNeverNegative == \A c \in Clients : FGe(held(c), Zero)

\* n, the clients and the store after an update, is the state before it.
NothingChanged(n) ==
    /\ n.available = available
    /\ n.total = total
    /\ n.locked = locked
    /\ n.store = store

\* C2: an update that returns an error leaves the client's available, total
\* and locked and the whole transaction store as they were before the call:
\* in every reachable state, for every client and event.
C2_FailureIsAtomic ==
    \A c \in Clients, e \in Events :
        LET n == After(c, e) IN
        n.res # "ok" => NothingChanged(n)

\* A client that holds funds deposits under an id of the other client, and
\* upsert raises the ownership conflict.
C2_Witness ==
    \E c \in Clients, e \in Events :
        /\ e.kind = "Deposit"
        /\ available[c] # Zero
        /\ store[e.tx] # NoEntry
        /\ After(c, e).res = "transaction exists for different client"

\* C3: a successful chargeback sets locked; a locked client stays locked, and
\* every later update of it, of any kind, returns the account-frozen error and
\* changes neither its balances nor the store.
C3_FrozenIsAbsorbing ==
    \A c \in Clients, e \in Events :
        LET n == After(c, e) IN
        /\ \A d \in Clients : locked[d] => n.locked[d]
        /\ (e.kind = "Chargeback" /\ n.res = "ok") => n.locked[c]
        /\ locked[c] => (n.res = "account is frozen" /\ NothingChanged(n))

\* A frozen client is refused a deposit under a free transaction id, which an
\* unfrozen client would have been granted.
C3_Witness ==
    \E c \in Clients, e \in Events :
        /\ locked[c]
        /\ e.kind = "Deposit"
        /\ store[e.tx] = NoEntry
        /\ After(c, e).res = "account is frozen"

\* C4: once a transaction id is owned by client A, every event of a client
\* B # A on that id fails, and it changes no client's balances and not the store
\* (so not the owner and state recorded for that id).
C4_Isolation ==
    \A b \in Clients, e \in Events :
        (store[e.tx] # NoEntry /\ store[e.tx].owner # b)
            => LET n == After(b, e) IN
               n.res # "ok" /\ NothingChanged(n)

\* A client that holds funds disputes a deposit of the other client that its
\* funds would cover, and is told that the transaction does not exist.
C4_Witness ==
    \E b \in Clients, e \in Events :
        /\ e.kind = "Dispute"
        /\ store[e.tx] # NoEntry
        /\ store[e.tx].owner # b
        /\ store[e.tx].state.kind = "Deposit"
        /\ ~locked[b]
        /\ FGe(available[b], store[e.tx].state.amount)
        /\ FGt(available[b], Zero)
        /\ After(b, e).res = "transaction does not exist"

\* C5: with get and upsert as separate atomic steps of updates running in
\* parallel, no transaction id is claimed by two clients: the creating upsert on
\* a free id succeeds and records its client as the owner, the creating upsert of
\* any other client on that id fails, the update whose upsert failed returns the
\* conflict and changes no balance, the update whose upsert succeeded returns Ok
\* and changes only its own client's balances, and the owner recorded is the one
\* client whose creation succeeded or is about to.
C5_SingleClaimInv ==
    \A t \in TxIds :
        /\ Cardinality(claimed[t]) <= 1
        /\ store[t] = NoEntry => claimed[t] = {}
        /\ store[t] # NoEntry =>
             \/ claimed[t] = {store[t].owner}
             \/ /\ claimed[t] = {}
                /\ pc[store[t].owner] = "upserted"
                /\ cur[store[t].owner].tx = t
                /\ cur[store[t].owner].kind \in {"Deposit", "Withdrawal"}

C5_SingleClaimStep ==
    \A c \in Clients :
        cur[c].kind \in {"Deposit", "Withdrawal"} =>
          /\ (pc[c] = "inUpsert" /\ pc'[c] # "inUpsert") =>
               /\ Balances' = Balances
               /\ IF store[cur[c].tx] = NoEntry
                  THEN /\ pc'[c] = "upserted"
                       /\ store'[cur[c].tx].owner = c
                  ELSE /\ pc'[c] = "refused"
                       /\ store[cur[c].tx].owner # c
                       /\ store' = store
          /\ (pc[c] = "upserted" /\ pc'[c] = "idle") =>
               /\ last' = Returned(c, "ok")
               /\ store' = store
               /\ store[cur[c].tx].owner = c
               /\ claimed'[cur[c].tx] = {c}
               /\ \A d \in Clients \ {c} : available'[d] = available[d]
                                           /\ total'[d] = total[d]
          /\ (pc[c] = "refused" /\ pc'[c] = "idle") =>
               /\ last' = Returned(c, "transaction exists for different client")
               /\ Balances' = Balances
               /\ store' = store
               /\ claimed' = claimed

C5_SingleClaim == []C5_SingleClaimInv /\ [][C5_SingleClaimStep]_vars

\* Both clients tried to create the same id: one holds it and its balance
\* changed, the other was refused by upsert and has its initial balances.
C5_Witness ==
    \E t \in TxIds, a \in Clients :
        /\ claimed[t] = {a}
        /\ available[a] # Zero
        /\ last.client \in Clients \ {a}
        /\ last.res = "transaction exists for different client"
        /\ available[last.client] = Zero
        /\ total[last.client] = Zero

\* C6: a deposit under a transaction id that the client already owns fails,
\* whatever its amount and whatever the state of that transaction, and changes
\* neither the stored transaction nor any balance.
C6_DepositReplayFails ==
    \A c \in Clients, e \in Events :
        (e.kind = "Deposit" /\ store[e.tx] # NoEntry /\ store[e.tx].owner = c)
            => LET n == After(c, e) IN
               n.res # "ok" /\ NothingChanged(n)

\* A client replays, with another amount, the deposit of a transaction that is
\* now in Dispute state, and is refused.
C6_Witness ==
    \E c \in Clients, e \in Events :
        /\ e.kind = "Deposit"
        /\ store[e.tx].owner = c
        /\ store[e.tx].state.kind = "Dispute"
        /\ e.amount # store[e.tx].state.amount
        /\ After(c, e).res = "cannot overwrite existing transaction"

\* C7: after any sequence of upsert calls the owner recorded for a transaction
\* id is the client of the first upsert on it; no upsert changes a recorded
\* owner or removes an id; an upsert by another client returns the ownership
\* conflict and leaves the store unchanged; an upsert by the owner, or on a free
\* id, replaces the state of that id alone.
C7_OwnerInv ==
    \A t \in TxIds :
        IF creator[t] = 0 THEN store[t] = NoEntry
        ELSE store[t] # NoEntry /\ store[t].owner = creator[t]

C7_UpsertOutcome ==
    \A c \in Clients, t \in TxIds, tx \in TxStates :
        LET r == Upsert(store, c, t, tx) IN
        /\ \A u \in TxIds :
             store[u] # NoEntry
                 => (r.store[u] # NoEntry /\ r.store[u].owner = store[u].owner)
        /\ IF store[t] # NoEntry /\ store[t].owner # c
           THEN /\ r.res = "transaction exists for different client"
                /\ r.store = store
           ELSE /\ r.res = "ok"
                /\ r.store[t] = [owner |-> c, state |-> tx]
                /\ \A u \in TxIds \ {t} : r.store[u] = store[u]

C7_OwnershipIsPermanent == C7_OwnerInv /\ C7_UpsertOutcome

\* The owner of an id rewrote its state, and the other client's upsert on that
\* id is refused.
C7_Witness ==
    \E c \in Clients, t \in TxIds :
        /\ creator[t] \notin {0, c}
        /\ store[t].state.kind = "Dispute"
        /\ Upsert(store, c, t, Withdrawal).res = "transaction exists for different client"

\* C8: get(client_id, tx_id) returns the state most recently written by a
\* successful upsert for tx_id exactly when tx_id was created and its owner is
\* client_id, and returns None otherwise (the id never created, or created by
\* another client); a get leaves the store as it is.
C8_GetReturnsOwnedState ==
    /\ \A c \in Clients, t \in TxIds :
         Get(store, c, t) = IF creator[t] = c THEN written[t] ELSE None
    /\ \A t \in TxIds :
         store[t] = IF creator[t] = 0 THEN NoEntry
                    ELSE [owner |-> creator[t], state |-> written[t]]

\* The owner's get returns the state that a later upsert wrote, the other
\* client's get of that id returns None, and so does a get of a free id.
C8_Witness ==
    \E c \in Clients, d \in Clients, t \in TxIds, u \in TxIds :
        /\ creator[t] = c
        /\ d # c
        /\ creator[u] = 0
        /\ Get(store, c, t) = Dispute(Num(1))
        /\ Get(store, d, t) = None
        /\ Get(store, c, u) = None

\* C9: for an unlocked client, Deposit(a) under an id that the store does not
\* hold succeeds, adds a to available and to total, leaves locked false and held
\* unchanged, creates tx -> Deposit(a) owned by the client, and changes no other
\* store entry and no other client.
C9_DepositEffect ==
    \A c \in Clients, e \in Events :
        (e.kind = "Deposit" /\ ~locked[c] /\ store[e.tx] = NoEntry)
            => LET n == After(c, e) IN
               /\ n.res = "ok"
               /\ n.available[c] = FAdd(available[c], e.amount)
               /\ n.total[c] = FAdd(total[c], e.amount)
               /\ ~n.locked[c]
               /\ FSub(n.total[c], n.available[c]) = held(c)
               /\ n.store[e.tx] = [owner |-> c, state |-> Deposit(e.amount)]
               /\ \A u \in TxIds \ {e.tx} : n.store[u] = store[u]
               /\ \A d \in Clients \ {c} :
                     /\ n.available[d] = available[d]
                     /\ n.total[d] = total[d]
                     /\ n.locked[d] = locked[d]

\* C10 as stated: a withdrawal of a by a client whose available funds are less
\* than a fails with the insufficient-funds error and changes nothing.
C10_InsufficientFundsAnyClient ==
    \A c \in Clients, e \in Events :
        (e.kind = "Withdrawal" /\ FLt(available[c], e.amount))
            => LET n == After(c, e) IN
               /\ n.res = "insufficient funds for withdrawal"
               /\ NothingChanged(n)

\* C10 amended: a withdrawal of a by a client whose available funds are less
\* than a fails and changes nothing, also when total >= a; the error is the
\* insufficient-funds error when the client is not frozen and the account-frozen
\* error when it is.
C10_InsufficientFunds ==
    \A c \in Clients, e \in Events :
        (e.kind = "Withdrawal" /\ FLt(available[c], e.amount))
            => LET n == After(c, e) IN
               /\ n.res = IF locked[c] THEN "account is frozen"
                               ELSE "insufficient funds for withdrawal"
               /\ NothingChanged(n)

\* An unfrozen client is refused a withdrawal under a free id for lack of funds,
\* although its total covers the amount: the difference is held under dispute.
C10_Witness ==
    \E c \in Clients, e \in Events :
        /\ e.kind = "Withdrawal"
        /\ ~locked[c]
        /\ store[e.tx] = NoEntry
        /\ FLt(available[c], e.amount)
        /\ FLe(e.amount, total[c])
        /\ After(c, e).res = "insufficient funds for withdrawal"

\* The store holds e.tx for client c.
Owns(c, t) == store[t] # NoEntry /\ store[t].owner = c

\* n.available, n.total and n.locked are those of now for every client but c.
OthersUntouched(n, c) ==
    \A d \in Clients \ {c} :
        /\ n.available[d] = available[d]
        /\ n.total[d] = total[d]
        /\ n.locked[d] = locked[d]

\* C11 as stated: for an unlocked client a withdrawal of a with available >= a
\* succeeds, decreases available and total by a, and leaves the store identical.
C11_WithdrawalSingleGuard ==
    \A c \in Clients, e \in Events :
        (e.kind = "Withdrawal" /\ ~locked[c] /\ FGe(available[c], e.amount))
            => LET n == After(c, e) IN
               /\ n.res = "ok"
               /\ n.available[c] = FSub(available[c], e.amount)
               /\ n.total[c] = FSub(total[c], e.amount)
               /\ n.store = store

\* C11 amended: for an unlocked client a withdrawal of a under tx succeeds
\* exactly when available < a is false (for two numbers: available >= a; the
\* comparison is also false when a or available is NaN) and the store holds no
\* entry for tx; it then subtracts a from available and from total, leaves
\* locked false, records tx -> Withdrawal owned by the client, and changes no
\* other store entry and no other client.
C11_WithdrawalEffect ==
    \A c \in Clients, e \in Events :
        (e.kind = "Withdrawal" /\ ~locked[c])
            => LET n == After(c, e) IN
               /\ n.res = "ok" <=> (~FLt(available[c], e.amount) /\ store[e.tx] = NoEntry)
               /\ (available[c].cls # "nan" /\ e.amount.cls # "nan")
                     => (~FLt(available[c], e.amount) <=> FGe(available[c], e.amount))
               /\ n.res = "ok" =>
                    /\ n.available[c] = FSub(available[c], e.amount)
                    /\ n.total[c] = FSub(total[c], e.amount)
                    /\ ~n.locked[c]
                    /\ n.store = [store EXCEPT ![e.tx] = [owner |-> c, state |-> Withdrawal]]
                    /\ OthersUntouched(n, c)

\* A client withdraws an amount that its available funds, a number, cover, under
\* a free id, and succeeds.
C11_Witness ==
    \E c \in Clients, e \in Events :
        /\ e.kind = "Withdrawal"
        /\ ~locked[c]
        /\ FLt(Zero, e.amount)
        /\ available[c].cls = "num"
        /\ FLe(e.amount, available[c])
        /\ store[e.tx] = NoEntry
        /\ After(c, e).res = "ok"

\* C12: a withdrawal under a transaction id that the store already holds, for
\* the same client in any state or for another client, fails even when available
\* covers the amount, and changes neither the balances nor the store.
C12_WithdrawalExistingIdFails ==
    \A c \in Clients, e \in Events :
        (e.kind = "Withdrawal" /\ store[e.tx] # NoEntry)
            => LET n == After(c, e) IN
               n.res # "ok" /\ NothingChanged(n)

\* A client whose funds cover the amount withdraws again under the id of its
\* earlier withdrawal, and is refused.
C12_Witness ==
    \E c \in Clients, e \in Events :
        /\ e.kind = "Withdrawal"
        /\ ~locked[c]
        /\ FLt(Zero, e.amount)
        /\ FLe(e.amount, available[c])
        /\ Owns(c, e.tx)
        /\ store[e.tx].state = Withdrawal
        /\ After(c, e).res = "cannot overwrite existing transaction"

\* C13: for an unlocked client a dispute of tx succeeds exactly when the store
\* holds tx for this client as Deposit(amount) with amount <= available; it then
\* decreases available by amount, leaves total unchanged (held grows by amount),
\* leaves locked false and makes tx Dispute(amount), changing nothing else; a
\* dispute of a transaction already in Dispute state fails as already disputed
\* and changes nothing.
C13_DisputeEffect ==
    \A c \in Clients, e \in Events :
        (e.kind = "Dispute" /\ ~locked[c])
            => LET n == After(c, e)
                   s == store[e.tx].state
               IN
               /\ n.res = "ok" <=>
                      (Owns(c, e.tx) /\ s.kind = "Deposit" /\ FLe(s.amount, available[c]))
               /\ n.res = "ok" =>
                    /\ n.available[c] = FSub(available[c], s.amount)
                    /\ n.total[c] = total[c]
                    /\ FSub(n.total[c], n.available[c]) = FAdd(held(c), s.amount)
                    /\ ~n.locked[c]
                    /\ n.store = [store EXCEPT ![e.tx] =
                                      [owner |-> c, state |-> Dispute(s.amount)]]
                    /\ OthersUntouched(n, c)
               /\ (Owns(c, e.tx) /\ s.kind = "Dispute") =>
                    /\ n.res = "transaction already disputed"
                    /\ NothingChanged(n)

\* The resolve event on transaction t.
ResolveOf(t) == [kind |-> "Resolve", tx |-> t, amount |-> Zero]

\* C14: dispute then resolve is a round trip.  Whenever a step is the successful
\* dispute of t by its owner c (the only step that takes t from Deposit to
\* Dispute), a resolve of t by c in the state it leads to succeeds and gives
\* back exactly the available, total, locked and store from before the dispute,
\* t -> Deposit with the same amount included; and in that restored state a
\* further resolve of t fails as not disputed and changes nothing.
C14_Step ==
    \A c \in Clients, t \in TxIds :
        (Owns(c, t) /\ store[t].state.kind = "Deposit"
                    /\ store'[t].state.kind = "Dispute")
        => /\ ~locked[c] /\ ~locked'[c]
           /\ After(c, ResolveOf(t))'.res = "ok"
           /\ After(c, ResolveOf(t))'.available = available
           /\ After(c, ResolveOf(t))'.total = total
           /\ After(c, ResolveOf(t))'.locked = locked
           /\ After(c, ResolveOf(t))'.store = store
           /\ After(c, ResolveOf(t)).res = "transaction is not disputed"
           /\ NothingChanged(After(c, ResolveOf(t)))

C14_DisputeResolveRoundTrip == [][C14_Step]_vars

\* C15: for an unlocked client a chargeback of tx succeeds exactly when the
\* store holds tx for this client as Dispute(amount); it then decreases total by
\* amount and sets locked, leaves available unchanged and does not write the
\* store; a chargeback of a transaction in Deposit or Withdrawal state fails as
\* not disputed and changes nothing.
C15_ChargebackEffect ==
    \A c \in Clients, e \in Events :
        (e.kind = "Chargeback" /\ ~locked[c])
            => LET n == After(c, e)
                   s == store[e.tx].state
               IN
               /\ n.res = "ok" <=> (Owns(c, e.tx) /\ s.kind = "Dispute")
               /\ n.res = "ok" =>
                    /\ n.total[c] = FSub(total[c], s.amount)
                    /\ n.locked[c]
                    /\ n.available[c] = available[c]
                    /\ n.store = store
                    /\ n.store[e.tx].state = Dispute(s.amount)
                    /\ OthersUntouched(n, c)
               /\ (Owns(c, e.tx) /\ s.kind \in {"Deposit", "Withdrawal"}) =>
                    /\ n.res = "transaction is not disputed"
                    /\ NothingChanged(n)

\* A client with available funds left charges back a disputed deposit.
C15_Witness ==
    \E c \in Clients, e \in Events :
        /\ e.kind = "Chargeback"
        /\ ~locked[c]
        /\ FGt(available[c], Zero)
        /\ Owns(c, e.tx)
        /\ store[e.tx].state.kind = "Dispute"
        /\ FGt(store[e.tx].state.amount, Zero)
        /\ After(c, e).res = "ok"

\* C16 as stated: from a new client, deposit tx=1 5, deposit tx=2 6, dispute
\* tx=1 yields available=1, held=5, total=6; a following chargeback tx=1 yields
\* available=1, held=0, total=1, locked.
C16_ScenarioAsStated ==
    /\ scenario = 3 =>
         /\ available[ScenarioClient] = Num(1)
         /\ held(ScenarioClient) = Num(5)
         /\ total[ScenarioClient] = Num(6)
    /\ scenario = 4 =>
         /\ available[ScenarioClient] = Num(1)
         /\ held(ScenarioClient) = Zero
         /\ total[ScenarioClient] = Num(1)
         /\ locked[ScenarioClient]

\* C16 amended: from a new client, deposit tx=1 5, deposit tx=2 6, dispute tx=1
\* yields available=6, held=5, total=11, not locked; a following chargeback tx=1
\* yields available=6, held=0, total=6, locked.
C16_Scenario ==
    /\ scenario = 3 =>
         /\ available[ScenarioClient] = Num(6)
         /\ held(ScenarioClient) = Num(5)
         /\ total[ScenarioClient] = Num(11)
         /\ ~locked[ScenarioClient]
    /\ scenario = 4 =>
         /\ available[ScenarioClient] = Num(6)
         /\ held(ScenarioClient) = Zero
         /\ total[ScenarioClient] = Num(6)
         /\ locked[ScenarioClient]

\* The four events of the scenario have been applied, and nothing else.
C16_Witness ==
    /\ scenario = Len(Scenario)
    /\ locked[ScenarioClient]
    /\ store[1] = [owner |-> ScenarioClient, state |-> Dispute(Num(5))]
    /\ store[2] = [owner |-> ScenarioClient, state |-> Deposit(Num(6))]

\* The store holds t for a client other than c.
Foreign(c, t) == store[t] # NoEntry /\ store[t].owner # c

\* The store of the run in which nobody created t.
WithoutTx(t) == [store EXCEPT ![t] = NoEntry]

\* Two returns of update agree in the result and in the client's balances.
SameOutcome(a, b) ==
    /\ a.res = b.res
    /\ a.available = b.available
    /\ a.total = b.total
    /\ a.locked = b.locked

\* C17 as stated: for every event kind that client c issues on an id t owned by
\* another client, the outcome and c's balances are those of the same update in
\* the run where t is absent from the store.
C17_ForeignLooksAbsent ==
    \A c \in Clients, e \in Events :
        Foreign(c, e.tx)
            => SameOutcome(UpdateIn(store, c, e), UpdateIn(WithoutTx(e.tx), c, e))

\* C17 amended: a dispute, resolve or chargeback that c issues on an id t owned
\* by another client has the outcome, failure reason and balances of the same
\* update in the run where t is absent.  A deposit or withdrawal on t agrees with
\* that run only when it fails before reaching the store (c is frozen, or the
\* withdrawal exceeds c's available funds); otherwise it fails with the
\* ownership-conflict error and unchanged balances where t is owned by another
\* client, and succeeds where t is absent.
C17_Indistinguishable ==
    \A c \in Clients, e \in Events :
        Foreign(c, e.tx)
            => LET here == UpdateIn(store, c, e)
                   there == UpdateIn(WithoutTx(e.tx), c, e)
                   early == locked[c] \/ (e.kind = "Withdrawal" /\ FLt(available[c], e.amount))
               IN
               /\ here = Update(c, e)
               /\ (e.kind \in {"Dispute", "Resolve", "Chargeback"} \/ early)
                      => SameOutcome(here, there)
               /\ (e.kind \in {"Deposit", "Withdrawal"} /\ ~early)
                      => /\ here.res = "transaction exists for different client"
                         /\ here.available = available[c]
                         /\ here.total = total[c]
                         /\ here.locked = locked[c]
                         /\ there.res = "ok"

\* A client with funds issues a chargeback on a transaction that another client
\* holds under dispute, and is told what it is told when the id is absent.
C17_Witness ==
    \E c \in Clients, e \in Events :
        /\ e.kind = "Chargeback"
        /\ Foreign(c, e.tx)
        /\ store[e.tx].state.kind = "Dispute"
        /\ ~locked[c]
        /\ FGt(available[c], Zero)
        /\ UpdateIn(store, c, e).res = "transaction does not exist"
        /\ UpdateIn(WithoutTx(e.tx), c, e).res = "transaction does not exist"

\* C18: Event::try_from succeeds exactly when the record's type is one of the
\* five literals deposit, withdrawal, dispute, resolve, chargeback (exact case)
\* and, for deposit and withdrawal, the amount is present; the event then has the
\* record's client and tx, the record's amount for deposit and withdrawal, and no
\* amount for dispute, resolve and chargeback, whatever amount the record had.
C18_Validation ==
    parsed # NotParsed =>
        LET carries == record.type \in {"deposit", "withdrawal"}
            known == record.type \in
                         {"deposit", "withdrawal", "dispute", "resolve", "chargeback"}
        IN  /\ parsed.res = "ok" <=> (known /\ (carries => record.amount.some))
            /\ parsed.res = "ok" =>
                 /\ parsed.event.client = record.client
                 /\ parsed.event.tx = record.tx
                 /\ parsed.event.kind =
                        CASE record.type = "deposit" -> "Deposit"
                          [] record.type = "withdrawal" -> "Withdrawal"
                          [] record.type = "dispute" -> "Dispute"
                          [] record.type = "resolve" -> "Resolve"
                          [] record.type = "chargeback" -> "Chargeback"
                 /\ parsed.event.amount = IF carries THEN record.amount ELSE NoAmount

\* A dispute record that supplies an amount is accepted, and its event carries
\* none.
C18_Witness ==
    /\ record.type = "dispute"
    /\ record.amount.some
    /\ parsed.res = "ok"
    /\ parsed.event.amount = NoAmount

\* The dispute event on transaction t.
DisputeOf(t) == [kind |-> "Dispute", tx |-> t, amount |-> Zero]

\* No client but c changes in the step.
OthersKeep(c) ==
    \A d \in Clients \ {c} :
        /\ available'[d] = available[d]
        /\ total'[d] = total[d]
        /\ locked'[d] = locked[d]

\* C19: the stored state of a transaction changes only from Deposit(a) to
\* Dispute(a), in a step that is a successful dispute by its owner (available of
\* the owner decreases by a, nothing else changes), and from Dispute(a) to
\* Deposit(a), in a step that is a successful resolve by its owner (available
\* increases by a); so the amount of a transaction never changes, its owner
\* neither, and a Withdrawal stays a Withdrawal.  A dispute of a Withdrawal fails
\* for every client and changes nothing.
C19_Step ==
    \A t \in TxIds :
        store[t] # NoEntry =>
            LET o == store[t].owner
                a == store[t].state.amount
            IN
            \/ store'[t] = store[t]
            \/ /\ store[t].state = Deposit(a)
               /\ store'[t] = [owner |-> o, state |-> Dispute(a)]
               /\ available'[o] = FSub(available[o], a)
               /\ total'[o] = total[o]
               /\ ~locked[o] /\ ~locked'[o]
               /\ OthersKeep(o)
            \/ /\ store[t].state = Dispute(a)
               /\ store'[t] = [owner |-> o, state |-> Deposit(a)]
               /\ available'[o] = FAdd(available[o], a)
               /\ total'[o] = total[o]
               /\ ~locked[o] /\ ~locked'[o]
               /\ OthersKeep(o)

C19_WithdrawalNotDisputable ==
    \A c \in Clients, t \in TxIds :
        (store[t] # NoEntry /\ store[t].state = Withdrawal)
            => LET n == After(c, DisputeOf(t)) IN
               n.res # "ok" /\ NothingChanged(n)

C19_Transitions == []C19_WithdrawalNotDisputable /\ [][C19_Step]_vars

\* A client that holds a deposit under dispute disputes its own withdrawal, and
\* is told that a withdrawal cannot be disputed.
C19_Witness ==
    \E c \in Clients, t \in TxIds, u \in TxIds :
        /\ Owns(c, t)
        /\ store[t].state = Withdrawal
        /\ ~locked[c]
        /\ Owns(c, u)
        /\ store[u].state.kind = "Dispute"
        /\ After(c, DisputeOf(t)).res = "cannot dispute a withdrawal"

\* The balances of client c as its update in progress has decided them: those
\* of the assignments that follow an upsert that has returned Ok, and the
\* fields as they are otherwise.
Effective(c) ==
    IF pc[c] = "upserted"
    THEN Only({[available |-> r.available, total |-> r.total, locked |-> r.locked] :
                  r \in {Applied(c, cur[c], fetched[c], store)}})
    ELSE [available |-> available[c], total |-> total[c], locked |-> locked[c]]

\* The step at which the update of c takes effect: the return of its upsert,
\* or, when it makes no upsert, its going on from the answer of get to its
\* return.
TakesEffect(c) ==
    \/ (pc[c] = "inUpsert" /\ pc'[c] \in {"upserted", "refused"})
    \/ (pc[c] = "gotten" /\ pc'[c] = "idle")

\* What update returns, or will return, to c after the step.
Outcome(c, res) ==
    /\ pc'[c] = "idle" => last' = Returned(c, res)
    /\ pc'[c] = "upserted" => res = "ok"
    /\ pc'[c] = "refused" => res = "transaction exists for different client"

\* C20: updates of different clients running in parallel are serializable.
\* Every update takes effect at one step of its own (TakesEffect, or the step
\* in which it fails before its get): there the store and the balances its
\* client is left with at its return change exactly as Client::update executed
\* atomically, one update at a time, changes them in the state before that
\* step, and the result it returns is the result of that atomic execution; the
\* steps between change neither the store nor any client's balances to come,
\* and the return after an upsert returns what was decided at the upsert.  The
\* order in which the updates take effect is the sequential order; it keeps
\* each client's own events in order, and when no update is in progress the
\* balances to come are the balances, so that the final balances and store are
\* those of the sequential run.
C20_Step ==
    /\ \A c \in Clients :
         /\ TakesEffect(c) =>
              \E n \in {Update(c, cur[c])} :
                /\ Effective(c)' = [available |-> n.available, total |-> n.total,
                                    locked |-> n.locked]
                /\ store' = n.store
                /\ Outcome(c, n.res)
                /\ \A d \in Clients \ {c} : Effective(d)' = Effective(d)
         /\ (pc[c] \in {"upserted", "refused"} /\ pc'[c] = "idle") =>
              last' = Returned(c, UpsertResult(c).res)
    /\ (\A c \in Clients : ~TakesEffect(c)) =>
         /\ store' = store
         /\ \A d \in Clients : Effective(d)' = Effective(d)
    /\ last' # last =>
         \/ \E c \in Clients : pc[c] # "idle" /\ pc'[c] = "idle" /\ last'.client = c
         \/ /\ pc' = pc
            /\ last'.client \in Clients
            /\ pc[last'.client] = "idle"
            /\ \E e \in ConcEvents :
                  LET n == After(last'.client, e) IN
                  n.res = last'.res /\ NothingChanged(n)

C20_Serializable == [][C20_Step]_vars

\* The race on one free id: the upsert of c's deposit has written the entry and
\* returned Ok, c's balances are still unassigned, and meanwhile the deposit of
\* d under the same id has returned the conflict.
C20_Witness ==
    \E c \in Clients, d \in Clients :
        /\ c # d
        /\ pc[c] = "upserted"
        /\ cur[c].kind = "Deposit"
        /\ cur[c].amount = Num(1)
        /\ store[cur[c].tx] = [owner |-> c, state |-> Deposit(Num(1))]
        /\ available[c] = Zero
        /\ total[c] = Zero
        /\ last = Returned(d, "transaction exists for different client")

\* C21: with the clients' threads applying their events concurrently against the
\* one mutex-protected store, the mutex is held exactly while a thread is inside
\* one get or one upsert and never between the two; whenever an update is in
\* progress some thread can take a step (no deadlock); and, under weak fairness
\* of lock acquisition, every started update returns, with Ok or with an error.
C21_LockDiscipline ==
    /\ mutex \in Clients \cup {0}
    /\ \A c \in Clients : (mutex = c) <=> (pc[c] \in {"inGet", "inUpsert"})

C21_NoDeadlock ==
    (\E c \in Clients : pc[c] # "idle") => \E c \in Clients : ENABLED ThreadStep(c)

C21_Returns ==
    \A c \in Clients :
        (pc[c] # "idle") ~> (pc[c] = "idle" /\ last.client = c /\ last.res # "none")

C21_Termination == []C21_LockDiscipline /\ []C21_NoDeadlock /\ C21_Returns

\* One thread has its answer from get and holds no lock, while the other
\* thread holds the lock.
C21_Witness ==
    \E c \in Clients, d \in Clients :
        /\ c # d
        /\ pc[c] = "gotten"
        /\ mutex = d
        /\ pc[d] \in {"inGet", "inUpsert"}

\* C22: when every deposit and withdrawal amount is non-negative, available >= 0
\* and total >= 0 for every client in every reachable state, also after a
\* chargeback.
C22_NonNegativeBalances ==
    \A c \in Clients : FGe(available[c], Zero) /\ FGe(total[c], Zero)

\* The sum of the amounts of the transactions the store records for client c in
\* Dispute state, among the transaction ids in ids.
RECURSIVE DisputedSum(_, _)
DisputedSum(c, ids) ==
    IF ids = {} THEN 0
    ELSE LET t == CHOOSE x \in ids : TRUE
             rest == DisputedSum(c, ids \ {t})
         IN  IF Owns(c, t) /\ store[t].state.kind = "Dispute"
             THEN IntOf(store[t].state.amount) + rest
             ELSE rest

\* C23: for every client that is not locked, in every reachable state, total is
\* the sum of the amounts of its accepted deposits minus the sum of the amounts
\* of its accepted withdrawals, and held is the sum of the amounts of the
\* transactions the store records for it in Dispute state.
C23_BalanceAccounting ==
    \A c \in Clients :
        ~locked[c] =>
            /\ total[c] = Num(deposited[c] - withdrawn[c])
            /\ held(c) = Num(DisputedSum(c, DOMAIN store))

\* The entries that handle_entry drops: rows that are no Record and records that
\* Event::try_from rejects.
Rejected(entry) == ~entry.ok \/ TryFrom(entry.record).res # "ok"

ZeroBalances(c) == available[c] = Zero /\ total[c] = Zero /\ ~locked[c]

\* C24: in the driver, an entry that fails validation changes no balance, writes
\* nothing to the store and creates no client; a validated event finds or
\* creates its client (created with zero balances, unlocked) and is applied to
\* it; a client none of whose events succeeded exists with zero balances; and the
\* clients created are exactly the client ids of the validated events, each
\* created once.
C24_Driver ==
    /\ \A entry \in Entries :
           LET n == HandleEntry(entry) IN
           IF Rejected(entry)
           THEN /\ n.res # "ok"
                /\ n.available = available
                /\ n.total = total
                /\ n.locked = locked
                /\ n.store = store
                /\ n.created = created
           ELSE LET ev == TryFrom(entry.record).event
                    c == ev.client
                    u == After(c, UpdateEvent(ev))
                IN  /\ c = entry.record.client
                    /\ n.created[c] = 1
                    /\ \A d \in Clients \ {c} : n.created[d] = created[d]
                    /\ created[c] = 0 => ZeroBalances(c)
                    /\ n.res = u.res
                    /\ n.available = u.available
                    /\ n.total = u.total
                    /\ n.locked = u.locked
                    /\ n.store = u.store
    /\ \A c \in Clients :
           /\ created[c] = (IF c \in validated THEN 1 ELSE 0)
           /\ (created[c] = 1 /\ c \notin succeeded) => ZeroBalances(c)
           /\ created[c] = 0 => (ZeroBalances(c) /\ \A t \in TxIds : ~Owns(c, t))

\* Client 1 exists though the ledger rejected every event of it, and client 2,
\* for which the input has records that fail validation, was never created.
C24_Witness ==
    /\ created[1] = 1
    /\ 1 \in validated
    /\ 1 \notin succeeded
    /\ created[2] = 0
    /\ 2 \notin validated
    /\ \E entry \in Entries :
           entry.ok /\ entry.record.client = 2 /\ Rejected(entry)

====
